---------------------------- MODULE Spec2Model ----------------------------
(***************************************************************************)
(* The ACME client registry of pkg/acme/accounts/registry.go: a map from   *)
(* an issuer UID to an ACME client and the options it was built from,      *)
(* guarded by one sync.RWMutex and used by concurrent workers.             *)
(***************************************************************************)
EXTENDS Integers, Sequences, FiniteSets, TLC

(* ------------------------------ bounds --------------------------------- *)

\* Number of concurrent goroutines calling the registry.
NumWorkers == 2

\* Total number of things the callers do in one behaviour: calls of the
\* registry, and changes to a map ListClients returned.
MaxCalls == 3

Workers == 1 .. NumWorkers

(* ------------------------------ inputs --------------------------------- *)

UIDs == {"a", "b"}

\* cmacme.ACMEIssuer: Server and SkipTLSVerify are the fields the registry
\* reads; Email stands for the fields it never reads.
Configs ==
    { [Server |-> "prod",    SkipTLSVerify |-> FALSE, Email |-> "x@example"],
      [Server |-> "staging", SkipTLSVerify |-> FALSE, Email |-> "x@example"],
      [Server |-> "prod",    SkipTLSVerify |-> TRUE,  Email |-> "x@example"],
      [Server |-> "prod",    SkipTLSVerify |-> FALSE, Email |-> "y@example"] }

\* *rsa.PrivateKey: nil, or a key with public modulus N, public exponent E
\* and private exponent D.  187 = 11*17 has the two private exponents 27
\* and 107 for E = 3; 391 = 17*23.
NilKey == [nil |-> TRUE, N |-> 0, E |-> 0, D |-> 0]

PrivateKeys ==
    { NilKey,
      [nil |-> FALSE, N |-> 187, E |-> 3, D |-> 27],
      [nil |-> FALSE, N |-> 187, E |-> 3, D |-> 107],
      [nil |-> FALSE, N |-> 187, E |-> 7, D |-> 23],
      [nil |-> FALSE, N |-> 391, E |-> 3, D |-> 235] }

\* The inputs of a behaviour: the issuer as first configured, and the same
\* issuer after one edit of its configuration or one change of its key.
BaseInput ==
    [ config     |-> [Server |-> "prod", SkipTLSVerify |-> FALSE, Email |-> "x@example"],
      privateKey |-> [nil |-> FALSE, N |-> 187, E |-> 3, D |-> 27] ]

EditedInputs ==
    { i \in [config : Configs, privateKey : PrivateKeys] :
         /\ i /= BaseInput
         /\ i.config = BaseInput.config \/ i.privateKey = BaseInput.privateKey }

(* --------------------------- pure functions ---------------------------- *)

\* Big-endian bytes of a natural number, no leading zero byte.
RECURSIVE Bytes(_)
Bytes(n) == IF n = 0 THEN << >> ELSE Append(Bytes(n \div 256), n % 256)

\* big.Int.GobEncode: a version byte carrying the sign, then the magnitude.
GobEncode(n) ==
    IF n < 0 THEN <<3>> \o Bytes(0 - n) ELSE <<2>> \o Bytes(n)

\* Mutant: the exponent is left out of the options.
newStableOptionsNoExponent(uid, config, privateKey) ==
    [ serverURL     |-> config.Server,
      skipVerifyTLS |-> config.SkipTLSVerify,
      issuerUID     |-> uid,
      publicKey     |-> GobEncode(privateKey.N),
      exponent      |-> 0 ]

newStableOptions(uid, config, privateKey) ==
    [ serverURL     |-> config.Server,
      skipVerifyTLS |-> config.SkipTLSVerify,
      issuerUID     |-> uid,
      publicKey     |-> GobEncode(privateKey.N),
      exponent      |-> privateKey.E ]

\* Mutant: only the server URL is compared.
equalToServerOnly(c, c2) == c.serverURL = c2.serverURL

equalTo(c, c2) == c = c2

\* The nil acmecl.Interface.
NilClient ==
    [ptr |-> 0, Key |-> NilKey, DirectoryURL |-> "", InsecureSkipVerify |-> FALSE]

\* Mutant: the client is built without the skip-verify flag.
NewClientNoSkip(config, privateKey, ptr) ==
    [ ptr                |-> ptr,
      Key                |-> privateKey,
      DirectoryURL       |-> config.Server,
      InsecureSkipVerify |-> FALSE ]

\* NewClient allocates a client at a fresh address ptr.
NewClient(config, privateKey, ptr) ==
    [ ptr                |-> ptr,
      Key                |-> privateKey,
      DirectoryURL       |-> config.Server,
      InsecureSkipVerify |-> config.SkipTLSVerify ]


(* ------------------------------- state --------------------------------- *)

VARIABLES
    heap,            \* the map objects: heap[RegMap] is r.clients, heap[p] the map made by worker p's ListClients
    writer,          \* r.lock: the worker holding it for writing, 0 when none
    readers,         \* r.lock: the workers holding it for reading
    pc,              \* each worker's position in the method it runs
    args,            \* each worker's arguments: uid, config, privateKey
    newOpts,         \* ensureClient's local newOpts
    built,           \* the value NewClient returned, before it is stored
    todo,            \* ListClients: the keys the range loop has yet to visit
    ret,             \* the value a call is about to return; once it returned, what its caller keeps: a panic it recovered, the map ListClients gave it
    newClientCalls,  \* number of NewClient calls so far (the next client's address)
    stores,          \* history: number of assignments r.clients[uid] = ... so far
    ncalls,          \* number of calls and map changes the callers made so far
    pre,             \* history: the registry as the current writer found it when it got the lock
    last,            \* history: per uid, the kind of the last AddClient or RemoveClient that took effect, and the inputs of the last AddClient that did
    edited           \* the edited inputs the callers pass besides BaseInput

vars == << heap, writer, readers, pc, args, newOpts, built, todo, ret,
           newClientCalls, stores, ncalls, pre, last, edited >>

\* The address of r.clients among the map objects; worker p's ListClients
\* result lives at address p.
RegMap == 0

clients == heap[RegMap]

EmptyMap == [u \in {} |-> NilClient]

NoConfig == [Server |-> "", SkipTLSVerify |-> FALSE, Email |-> ""]

NoArgs == [uid |-> "", config |-> NoConfig, privateKey |-> NilKey]

NoOpts == newStableOptions("", NoConfig, NilKey)

NoRet == [op |-> "none", panicked |-> FALSE, client |-> NilClient, err |-> "nil", out |-> RegMap]

NoLast == [kind |-> "never", config |-> NoConfig, privateKey |-> NilKey]

NoPre == [held |-> FALSE, clients |-> EmptyMap, calls |-> 0, last |-> [u \in UIDs |-> NoLast]]

Init ==
    /\ heap = [r \in {RegMap} \cup Workers |-> EmptyMap]
    /\ writer = 0
    /\ readers = {}
    /\ pc = [p \in Workers |-> "idle"]
    /\ args = [p \in Workers |-> NoArgs]
    /\ newOpts = [p \in Workers |-> NoOpts]
    /\ built = [p \in Workers |-> NilClient]
    /\ todo = [p \in Workers |-> {}]
    /\ ret = [p \in Workers |-> NoRet]
    /\ newClientCalls = 0
    /\ stores = 0
    /\ ncalls = 0
    /\ pre = NoPre
    /\ last = [u \in UIDs |-> NoLast]
    /\ edited \in EditedInputs

\* A worker starts a call; the map an earlier ListClients gave it is dropped.
Invoke(p, first, a) ==
    /\ pc[p] = "idle"
    /\ ncalls < MaxCalls
    /\ heap' = [heap EXCEPT ![p] = EmptyMap]
    /\ ncalls' = ncalls + 1
    /\ pc' = [pc EXCEPT ![p] = first]
    /\ args' = [args EXCEPT ![p] = a]
    /\ ret' = [ret EXCEPT ![p] = NoRet]

\* The method returns r to its caller; its frame is gone.
Returned(p, r) ==
    /\ pc' = [pc EXCEPT ![p] = "idle"]
    /\ ret' = [ret EXCEPT ![p] = IF r.op = "ListClients" \/ r.panicked THEN r ELSE NoRet]
    /\ args' = [args EXCEPT ![p] = NoArgs]

\* Mutant: Lock does not wait.
CanLockAlways == TRUE

\* Mutant: Lock does not wait for the readers.
CanLockIgnoringReaders == writer = 0

\* sync.RWMutex: Lock waits for the writer and all readers to leave.
CanLock == writer = 0 /\ readers = {}

\* Mutant: RLock does not wait.
CanRLockAlways == TRUE

\* sync.RWMutex: RLock waits for the writer to leave.
CanRLock == writer = 0

\* A writer got the lock.
Locked(p) ==
    /\ CanLock
    /\ writer' = p
    /\ pre' = [held |-> TRUE, clients |-> clients, calls |-> newClientCalls,
               last |-> last]

\* The deferred r.lock.Unlock() runs and the method returns.
Unlocked(p, r) ==
    /\ writer' = 0
    /\ pre' = NoPre
    /\ Returned(p, r)
    /\ newOpts' = [newOpts EXCEPT ![p] = NoOpts]
    /\ built' = [built EXCEPT ![p] = NilClient]

(* ------------------------ AddClient / ensureClient --------------------- *)

AddClient(p) ==
    /\ \E uid \in UIDs, i \in {BaseInput, edited} :
          Invoke(p, "e_Lock", [uid |-> uid, config |-> i.config, privateKey |-> i.privateKey])
    /\ UNCHANGED << writer, readers, newOpts, built, todo, newClientCalls, stores,
                    pre, last, edited >>

EnsureLock(p) ==
    /\ pc[p] = "e_Lock"
    /\ Locked(p)
    /\ pc' = [pc EXCEPT ![p] = "e_newStableOptions"]
    /\ UNCHANGED << heap, readers, args, newOpts, built, todo, ret,
                    newClientCalls, stores, ncalls, last, edited >>

\* Mutant: a nil privateKey is taken for a zero key.
EnsureNewStableOptionsNilAsZero(p) ==
    /\ pc[p] = "e_newStableOptions"
    /\ pc' = [pc EXCEPT ![p] = "e_compare"]
    /\ newOpts' = [newOpts EXCEPT ![p] =
           newStableOptions(args[p].uid, args[p].config, args[p].privateKey)]
    /\ UNCHANGED << heap, writer, readers, args, built, todo, ret,
                    newClientCalls, stores, ncalls, pre, last, edited >>

\* newOpts := newStableOptions(uid, config, privateKey); a nil privateKey
\* is dereferenced and the call panics.
EnsureNewStableOptions(p) ==
    /\ pc[p] = "e_newStableOptions"
    /\ IF args[p].privateKey.nil
         THEN /\ pc' = [pc EXCEPT ![p] = "e_panic"]
              /\ UNCHANGED newOpts
         ELSE /\ pc' = [pc EXCEPT ![p] = "e_compare"]
              /\ newOpts' = [newOpts EXCEPT ![p] =
                     newStableOptions(args[p].uid, args[p].config, args[p].privateKey)]
    /\ UNCHANGED << heap, writer, readers, args, built, todo, ret,
                    newClientCalls, stores, ncalls, pre, last, edited >>

Ensured(p) == [kind |-> "ensured", config |-> args[p].config, privateKey |-> args[p].privateKey]

\* Mutant: the comparison is inverted.
FastPathInverted(p) ==
    /\ args[p].uid \in DOMAIN clients
    /\ ~ equalTo(clients[args[p].uid].stableOptions, newOpts[p])

\* if meta, ok := r.clients[uid]; ok && meta.equalTo(newOpts)
FastPath(p) ==
    /\ args[p].uid \in DOMAIN clients
    /\ equalTo(clients[args[p].uid].stableOptions, newOpts[p])

EnsureCompare(p) ==
    /\ pc[p] = "e_compare"
    /\ IF FastPath(p)
         THEN /\ pc' = [pc EXCEPT ![p] = "e_Unlock"]
              /\ last' = [last EXCEPT ![args[p].uid] = Ensured(p)]
         ELSE /\ pc' = [pc EXCEPT ![p] = "e_NewClient"]
              /\ UNCHANGED last
    /\ UNCHANGED << heap, writer, readers, args, newOpts, built, todo, ret,
                    newClientCalls, stores, ncalls, pre, edited >>

EnsureNewClient(p) ==
    /\ pc[p] = "e_NewClient"
    /\ newClientCalls' = newClientCalls + 1
    /\ built' = [built EXCEPT ![p] =
                    NewClient(args[p].config, args[p].privateKey, newClientCalls + 1)]
    /\ pc' = [pc EXCEPT ![p] = "e_store"]
    /\ UNCHANGED << heap, writer, readers, args, newOpts, todo, ret,
                    stores, ncalls, pre, last, edited >>

\* Mutant: the entry keeps the options of the entry it replaces.
StoredEntryStaleOptions(p) ==
    [ Interface     |-> built[p],
      stableOptions |-> IF args[p].uid \in DOMAIN clients
                          THEN clients[args[p].uid].stableOptions
                          ELSE newOpts[p] ]

\* clientWithMeta{Interface: NewClient(config, privateKey), stableOptions: newOpts}
StoredEntry(p) == [Interface |-> built[p], stableOptions |-> newOpts[p]]

\* m[k] = v on a Go map.
MapSet(m, k, v) == [u \in DOMAIN m \cup {k} |-> IF u = k THEN v ELSE m[u]]

\* delete(m, k) on a Go map.
MapDelete(m, k) == [u \in DOMAIN m \ {k} |-> m[u]]

\* r.clients[uid] = clientWithMeta{...}
EnsureStore(p) ==
    /\ pc[p] = "e_store"
    /\ heap' = [heap EXCEPT ![RegMap] = MapSet(clients, args[p].uid, StoredEntry(p))]
    /\ last' = [last EXCEPT ![args[p].uid] = Ensured(p)]
    /\ stores' = stores + 1
    /\ pc' = [pc EXCEPT ![p] = "e_Unlock"]
    /\ UNCHANGED << writer, readers, args, newOpts, built, todo, ret,
                    newClientCalls, ncalls, pre, edited >>

\* Mutant: Unlock is not deferred; a panic unwinds past it with the lock held.
EnsureUnlockNotDeferred(p) ==
    /\ pc[p] \in {"e_Unlock", "e_panic"}
    /\ IF pc[p] = "e_panic"
         THEN /\ Returned(p, [NoRet EXCEPT !.op = "AddClient", !.panicked = TRUE])
              /\ UNCHANGED << writer, pre, newOpts, built >>
         ELSE Unlocked(p, [NoRet EXCEPT !.op = "AddClient"])
    /\ UNCHANGED << heap, readers, todo, newClientCalls, stores, ncalls,
                    last, edited >>

\* The deferred Unlock, on the normal return and while the panic unwinds.
EnsureUnlock(p) ==
    /\ pc[p] \in {"e_Unlock", "e_panic"}
    /\ Unlocked(p, [NoRet EXCEPT !.op = "AddClient", !.panicked = (pc[p] = "e_panic")])
    /\ UNCHANGED << heap, readers, todo, newClientCalls, stores, ncalls,
                    last, edited >>

(* ------------------------------ GetClient ------------------------------ *)

GetClient(p) ==
    /\ \E uid \in UIDs :
          Invoke(p, "g_RLock", [NoArgs EXCEPT !.uid = uid])
    /\ UNCHANGED << writer, readers, newOpts, built, todo, newClientCalls, stores,
                    pre, last, edited >>

GetRLock(p) ==
    /\ pc[p] = "g_RLock"
    /\ CanRLock
    /\ readers' = readers \cup {p}
    /\ pc' = [pc EXCEPT ![p] = "g_lookup"]
    /\ UNCHANGED << heap, writer, args, newOpts, built, todo, ret,
                    newClientCalls, stores, ncalls, pre, last, edited >>

\* Mutant: a miss returns a nil client and a nil error.
LookupNoError(m, uid) ==
    IF uid \in DOMAIN m
      THEN [NoRet EXCEPT !.op = "GetClient", !.client = m[uid].Interface]
      ELSE [NoRet EXCEPT !.op = "GetClient"]

\* if c, ok := r.clients[uid]; ok { return c.Interface, nil }; return nil, ErrNotFound
Lookup(m, uid) ==
    IF uid \in DOMAIN m
      THEN [NoRet EXCEPT !.op = "GetClient", !.client = m[uid].Interface]
      ELSE [NoRet EXCEPT !.op = "GetClient", !.err = "ErrNotFound"]

\* The return value is computed, the deferred RUnlock has yet to run.
GetLookup(p) ==
    /\ pc[p] = "g_lookup"
    /\ ret' = [ret EXCEPT ![p] = Lookup(clients, args[p].uid)]
    /\ pc' = [pc EXCEPT ![p] = "g_RUnlock"]
    /\ UNCHANGED << heap, writer, readers, args, newOpts, built, todo,
                    newClientCalls, stores, ncalls, pre, last, edited >>

GetRUnlock(p) ==
    /\ pc[p] = "g_RUnlock"
    /\ readers' = readers \ {p}
    /\ Returned(p, ret[p])
    /\ UNCHANGED << heap, writer, newOpts, built, todo,
                    newClientCalls, stores, ncalls, pre, last, edited >>

(* ----------------------------- RemoveClient ---------------------------- *)

RemoveClient(p) ==
    /\ \E uid \in UIDs :
          Invoke(p, "r_Lock", [NoArgs EXCEPT !.uid = uid])
    /\ UNCHANGED << writer, readers, newOpts, built, todo, newClientCalls, stores,
                    pre, last, edited >>

RemoveLock(p) ==
    /\ pc[p] = "r_Lock"
    /\ Locked(p)
    /\ pc' = [pc EXCEPT ![p] = "r_delete"]
    /\ UNCHANGED << heap, readers, args, newOpts, built, todo, ret,
                    newClientCalls, stores, ncalls, last, edited >>

\* Mutant: every entry is dropped.
RemovedFromAll(m, uid) == EmptyMap

\* Mutant: nothing is deleted.
RemovedFromNothing(m, uid) == m

\* if _, ok := r.clients[uid]; !ok { return }; delete(r.clients, uid)
RemovedFrom(m, uid) == IF uid \notin DOMAIN m THEN m ELSE MapDelete(m, uid)

RemoveDelete(p) ==
    /\ pc[p] = "r_delete"
    /\ heap' = [heap EXCEPT ![RegMap] = RemovedFrom(clients, args[p].uid)]
    /\ last' = [last EXCEPT ![args[p].uid].kind = "removed"]
    /\ pc' = [pc EXCEPT ![p] = "r_Unlock"]
    /\ UNCHANGED << writer, readers, args, newOpts, built, todo, ret,
                    newClientCalls, stores, ncalls, pre, edited >>

RemoveUnlock(p) ==
    /\ pc[p] = "r_Unlock"
    /\ Unlocked(p, [NoRet EXCEPT !.op = "RemoveClient"])
    /\ UNCHANGED << heap, readers, todo, newClientCalls, stores, ncalls,
                    last, edited >>

(* ----------------------------- ListClients ----------------------------- *)

ListClients(p) ==
    /\ Invoke(p, "l_RLock", NoArgs)
    /\ UNCHANGED << writer, readers, newOpts, built, todo, newClientCalls, stores,
                    pre, last, edited >>

ListRLock(p) ==
    /\ pc[p] = "l_RLock"
    /\ CanRLock
    /\ readers' = readers \cup {p}
    /\ pc' = [pc EXCEPT ![p] = "l_make"]
    /\ UNCHANGED << heap, writer, args, newOpts, built, todo, ret,
                    newClientCalls, stores, ncalls, pre, last, edited >>

\* Mutant: every call fills one map kept by the registry.
OutShared(p) == 1

\* The address of the map that worker p's make() allocates.
Out(p) == p

\* out := make(map[string]acmecl.Interface); the range loop starts.
ListMake(p) ==
    /\ pc[p] = "l_make"
    /\ heap' = [heap EXCEPT ![Out(p)] = EmptyMap]
    /\ todo' = [todo EXCEPT ![p] = DOMAIN clients]
    /\ pc' = [pc EXCEPT ![p] = "l_range"]
    /\ UNCHANGED << writer, readers, args, newOpts, built, ret,
                    newClientCalls, stores, ncalls, pre, last, edited >>

\* One iteration of: for k, v := range r.clients { out[k] = v.Interface },
\* in any order; a key deleted meanwhile is not visited.
ListRange(p) ==
    /\ pc[p] = "l_range"
    /\ todo[p] /= {}
    /\ \E k \in todo[p] :
          /\ todo' = [todo EXCEPT ![p] = @ \ {k}]
          /\ heap' = IF k \in DOMAIN clients
                       THEN [heap EXCEPT ![Out(p)] = MapSet(@, k, clients[k].Interface)]
                       ELSE heap
    /\ UNCHANGED << writer, readers, pc, args, newOpts, built, ret,
                    newClientCalls, stores, ncalls, pre, last, edited >>

\* The loop is over: return out, and the deferred RUnlock runs.
ListRUnlock(p) ==
    /\ pc[p] = "l_range"
    /\ todo[p] = {}
    /\ readers' = readers \ {p}
    /\ Returned(p, [NoRet EXCEPT !.op = "ListClients", !.out = Out(p)])
    /\ UNCHANGED << heap, writer, newOpts, built, todo,
                    newClientCalls, stores, ncalls, pre, last, edited >>

\* The caller of ListClients changes the map it was given: delete(m, k).
CallerDeletes(p) ==
    /\ pc[p] = "idle"
    /\ ret[p].op = "ListClients"
    /\ ncalls < MaxCalls
    /\ ncalls' = ncalls + 1
    /\ \E k \in DOMAIN heap[ret[p].out] :
          heap' = [heap EXCEPT ![ret[p].out] = MapDelete(@, k)]
    /\ UNCHANGED << writer, readers, pc, args, newOpts, built, todo, ret,
                    newClientCalls, stores, pre, last, edited >>

\* The caller of ListClients changes the map it was given: m[k] = nil.
CallerSets(p) ==
    /\ pc[p] = "idle"
    /\ ret[p].op = "ListClients"
    /\ ncalls < MaxCalls
    /\ ncalls' = ncalls + 1
    /\ \E k \in UIDs :
          /\ IF k \in DOMAIN heap[ret[p].out] THEN heap[ret[p].out][k] /= NilClient ELSE TRUE
          /\ heap' = [heap EXCEPT ![ret[p].out] = MapSet(@, k, NilClient)]
    /\ UNCHANGED << writer, readers, pc, args, newOpts, built, todo, ret,
                    newClientCalls, stores, pre, last, edited >>

(* --------------------------- the specification ------------------------- *)

Next ==
    \E p \in Workers :
        \/ AddClient(p)
        \/ EnsureLock(p)
        \/ EnsureNewStableOptions(p)
        \/ EnsureCompare(p)
        \/ EnsureNewClient(p)
        \/ EnsureStore(p)
        \/ EnsureUnlock(p)
        \/ GetClient(p)
        \/ GetRLock(p)
        \/ GetLookup(p)
        \/ GetRUnlock(p)
        \/ RemoveClient(p)
        \/ RemoveLock(p)
        \/ RemoveDelete(p)
        \/ RemoveUnlock(p)
        \/ ListClients(p)
        \/ ListRLock(p)
        \/ ListMake(p)
        \/ ListRange(p)
        \/ ListRUnlock(p)
        \/ CallerDeletes(p)
        \/ CallerSets(p)

Spec == Init /\ [][Next]_vars

(***************************************************************************)
(* N workers call AddClient at once with the same arguments on an empty    *)
(* registry.                                                               *)
(***************************************************************************)

InitConcurrent ==
    /\ heap = [r \in {RegMap} \cup Workers |-> EmptyMap]
    /\ writer = 0
    /\ readers = {}
    /\ edited \in EditedInputs
    /\ pc = [p \in Workers |-> "e_Lock"]
    /\ \E uid \in UIDs :
          args = [p \in Workers |->
                    [uid |-> uid, config |-> edited.config, privateKey |-> edited.privateKey]]
    /\ newOpts = [p \in Workers |-> NoOpts]
    /\ built = [p \in Workers |-> NilClient]
    /\ todo = [p \in Workers |-> {}]
    /\ ret = [p \in Workers |-> NoRet]
    /\ newClientCalls = 0
    /\ stores = 0
    /\ ncalls = NumWorkers
    /\ pre = NoPre
    /\ last = [u \in UIDs |-> NoLast]

NextConcurrent ==
    \E p \in Workers :
        \/ EnsureLock(p)
        \/ EnsureNewStableOptions(p)
        \/ EnsureCompare(p)
        \/ EnsureNewClient(p)
        \/ EnsureStore(p)
        \/ EnsureUnlock(p)

SpecConcurrent == InitConcurrent /\ [][NextConcurrent]_vars

(* ------------------------------ the claims ----------------------------- *)

AllReturned == \A p \in Workers : pc[p] = "idle"

\* What GetClient(uid) returns when it runs now.
GetNow(uid) == Lookup(clients, uid)

\* The client's construction inputs are config and privateKey.
BuiltFrom(c, config, privateKey) ==
    /\ c.ptr /= 0
    /\ c.Key = privateKey
    /\ c.DirectoryURL = config.Server
    /\ c.InsecureSkipVerify = config.SkipTLSVerify

\* The client's construction inputs have the fingerprint of config and
\* privateKey: the same server, flag, modulus and exponent.
BuiltFromSameFingerprint(c, config, privateKey) ==
    /\ c.ptr /= 0
    /\ c.Key.N = privateKey.N
    /\ c.Key.E = privateKey.E
    /\ c.DirectoryURL = config.Server
    /\ c.InsecureSkipVerify = config.SkipTLSVerify

FingerprintFields == {"serverURL", "skipVerifyTLS", "issuerUID", "publicKey", "exponent"}

\* The five inputs a fingerprint is made of.
Fingerprint(uid, config, privateKey) ==
    [ serverURL     |-> config.Server,
      skipVerifyTLS |-> config.SkipTLSVerify,
      issuerUID     |-> uid,
      publicKey     |-> GobEncode(privateKey.N),
      exponent      |-> privateKey.E ]

ChangedFields(o, o2) == {f \in FingerprintFields : o[f] /= o2[f]}

\* The fingerprint fields in which worker p's AddClient differs from the
\* AddClient that last took effect for u0, as p found it.
ChangedSince(u0, p) ==
    ChangedFields(Fingerprint(u0, pre.last[u0].config, pre.last[u0].privateKey),
                  Fingerprint(args[p].uid, args[p].config, args[p].privateKey))

\* Worker p's ensureClient has finished its body and holds the lock still.
EnsureDone(p) == pc[p] = "e_Unlock"

----------------------------------------------------------------------------
\* C1: when all workers call AddClient at once with the same arguments for
\* an identity the registry does not hold, NewClient is called exactly once
\* in every interleaving, and once all have returned the registry holds one
\* entry, for that identity, with the client that call built.
C1_OneConstruction ==
    /\ newClientCalls <= 1
    /\ (AllReturned /\ ~ edited.privateKey.nil) =>
          /\ newClientCalls = 1
          /\ Cardinality(DOMAIN clients) = 1
          /\ \A u \in DOMAIN clients :
                /\ last[u] = [kind |-> "ensured", config |-> edited.config,
                              privateKey |-> edited.privateKey]
                /\ clients[u] =
                      [ Interface     |-> NewClient(edited.config, edited.privateKey, 1),
                        stableOptions |-> Fingerprint(u, edited.config, edited.privateKey) ]

C1_Witness ==
    /\ AllReturned
    /\ newClientCalls = 1
    /\ Cardinality(DOMAIN clients) = 1

----------------------------------------------------------------------------
\* C2: an AddClient whose config and key are those of the AddClient that
\* last took effect for the same uid takes the fast path: it does not call
\* NewClient and leaves the registry as it found it.
C2_RepeatIsNoOp ==
    \A p \in Workers :
       (EnsureDone(p) /\ pre.last[args[p].uid] = Ensured(p)) =>
          /\ newClientCalls = pre.calls
          /\ clients = pre.clients
          /\ args[p].uid \in DOMAIN clients

C2_Witness ==
    \E p \in Workers :
       /\ EnsureDone(p)
       /\ pre.last[args[p].uid] = Ensured(p)
       /\ newClientCalls = pre.calls

----------------------------------------------------------------------------
\* C3 as claimed: when an AddClient differs in one fingerprint field, the
\* identity included, from the AddClient that last took effect for u0, it
\* calls NewClient exactly once and GetClient no longer returns u0's client.
C3_AnyFieldRebuilds ==
    \A p \in Workers, u0 \in UIDs :
       ( /\ EnsureDone(p)
         /\ pre.last[u0].kind = "ensured"
         /\ Cardinality(ChangedSince(u0, p)) = 1 ) =>
          /\ newClientCalls = pre.calls + 1
          /\ GetNow(args[p].uid).client /= pre.clients[u0].Interface
          /\ GetNow(u0).client /= pre.clients[u0].Interface

\* C3 as amended: when an AddClient differs in one of server URL,
\* skip-verify flag, modulus bytes or exponent from the AddClient that last
\* took effect for the same uid, it calls NewClient exactly once and
\* GetClient(uid) returns the new client, not the one it replaced.
C3_FieldChangeRebuilds ==
    \A p \in Workers :
       ( /\ EnsureDone(p)
         /\ pre.last[args[p].uid].kind = "ensured"
         /\ Cardinality(ChangedSince(args[p].uid, p)) = 1 ) =>
          /\ newClientCalls = pre.calls + 1
          /\ GetNow(args[p].uid).err = "nil"
          /\ GetNow(args[p].uid).client.ptr = newClientCalls
          /\ GetNow(args[p].uid).client /= pre.clients[args[p].uid].Interface

C3_Witness ==
    \E p \in Workers :
       /\ EnsureDone(p)
       /\ pre.last[args[p].uid].kind = "ensured"
       /\ ChangedSince(args[p].uid, p) = {"exponent"}
       /\ newClientCalls = 2

----------------------------------------------------------------------------
\* C4 as claimed: while an AddClient(uid, config, key) is the last call that
\* took effect for uid, GetClient(uid) returns a client built from exactly
\* config and key.
C4_BuiltFromExactInputs ==
    \A u \in UIDs :
       last[u].kind = "ensured" =>
          /\ GetNow(u).err = "nil"
          /\ BuiltFrom(GetNow(u).client, last[u].config, last[u].privateKey)

\* C4 as amended: while an AddClient(uid, config, key) is the last call that
\* took effect for uid, GetClient(uid) returns a client built from inputs
\* with the fingerprint of (uid, config, key); it is built from exactly
\* config and key when that AddClient rebuilt the client.
C4_BuiltFromSameFingerprint ==
    /\ \A u \in UIDs :
          last[u].kind = "ensured" =>
             /\ GetNow(u).err = "nil"
             /\ BuiltFromSameFingerprint(GetNow(u).client, last[u].config, last[u].privateKey)
    /\ \A p \in Workers :
          (pc[p] = "g_RUnlock" /\ last[args[p].uid].kind = "ensured") =>
             /\ ret[p].err = "nil"
             /\ BuiltFromSameFingerprint(ret[p].client, last[args[p].uid].config,
                                         last[args[p].uid].privateKey)
    /\ \A p \in Workers :
          (EnsureDone(p) /\ newClientCalls /= pre.calls) =>
             BuiltFrom(GetNow(args[p].uid).client, args[p].config, args[p].privateKey)

C4_Witness ==
    \E p \in Workers :
       /\ pc[p] = "g_RUnlock"
       /\ last[args[p].uid].kind = "ensured"
       /\ ret[p].client.Key /= last[args[p].uid].privateKey

----------------------------------------------------------------------------
\* C5: every entry's options are the options of the inputs its own client
\* was built from.
C5_OptionsMatchClient ==
    \A u \in DOMAIN clients :
       /\ clients[u].Interface.ptr /= 0
       /\ clients[u].stableOptions =
             [ serverURL     |-> clients[u].Interface.DirectoryURL,
               skipVerifyTLS |-> clients[u].Interface.InsecureSkipVerify,
               issuerUID     |-> u,
               publicKey     |-> GobEncode(clients[u].Interface.Key.N),
               exponent      |-> clients[u].Interface.Key.E ]

C5_Witness ==
    \E u \in DOMAIN clients :
       /\ clients[u].Interface.ptr = 2
       /\ clients[u].Interface.Key = edited.privateKey
       /\ clients[u].Interface.DirectoryURL = edited.config.Server

----------------------------------------------------------------------------
\* C6: GetClient returns a nil client and ErrNotFound exactly when the
\* registry has no entry for the uid, and the entry's client and no error
\* when it has one; a uid for which no AddClient took effect has no entry.
C6_NotFoundIffAbsent ==
    /\ \A p \in Workers :
          pc[p] = "g_RUnlock" =>
             IF args[p].uid \in DOMAIN clients
               THEN /\ ret[p].err = "nil"
                    /\ ret[p].client = clients[args[p].uid].Interface
                    /\ ret[p].client /= NilClient
               ELSE /\ ret[p].err = "ErrNotFound"
                    /\ ret[p].client = NilClient
    /\ \A u \in UIDs : last[u].kind = "never" => u \notin DOMAIN clients

C6_Witness ==
    \E p, q \in Workers :
       /\ pc[p] = "g_RUnlock" /\ ret[p].err = "ErrNotFound"
       /\ last[args[p].uid].kind = "never"
       /\ pc[q] = "g_RUnlock" /\ ret[q].err = "nil"

----------------------------------------------------------------------------
\* C7: while a RemoveClient(uid) is the last call that took effect for uid,
\* the registry has no entry for uid and GetClient(uid) returns ErrNotFound.
C7_RemovedIsNotFound ==
    /\ \A u \in UIDs :
          last[u].kind = "removed" => GetNow(u).err = "ErrNotFound"
    /\ \A p \in Workers :
          (pc[p] = "g_RUnlock" /\ last[args[p].uid].kind = "removed") =>
             ret[p].err = "ErrNotFound"

C7_Witness ==
    \E p \in Workers :
       /\ pc[p] = "g_RUnlock"
       /\ last[args[p].uid].kind = "removed"
       /\ newClientCalls = 1
       /\ clients = EmptyMap

----------------------------------------------------------------------------
\* C8: RemoveClient deletes the uid's entry and nothing else; for a uid
\* with no entry, and so for a second RemoveClient in a row, it leaves the
\* registry as it found it.
C8_RemoveIdempotent ==
    \A p \in Workers :
       pc[p] = "r_Unlock" =>
          /\ clients = MapDelete(pre.clients, args[p].uid)
          /\ args[p].uid \notin DOMAIN pre.clients => clients = pre.clients
          /\ pre.last[args[p].uid].kind = "removed" => clients = pre.clients
          /\ newClientCalls = pre.calls

C8_Witness ==
    \E p \in Workers :
       /\ pc[p] = "r_Unlock"
       /\ pre.last[args[p].uid].kind = "removed"
       /\ pre.clients /= EmptyMap

----------------------------------------------------------------------------
\* The clients of the registered uids, as ListClients is to return them.
Snapshot == [k \in DOMAIN clients |-> clients[k].Interface]

\* Worker p holds a map ListClients returned to it.
HoldsList(p) == pc[p] = "idle" /\ ret[p].op = "ListClients"

\* The step is worker p changing the map it holds.
CallerChanges(p) == CallerDeletes(p) \/ CallerSets(p)

\* ListClients has filled out and is about to return it: out holds exactly
\* the registered uids, each with the client GetClient returns for it.
C9_ReturnsSnapshot ==
    \A p \in Workers :
       (pc[p] = "l_range" /\ todo[p] = {}) =>
          /\ heap[Out(p)] = Snapshot
          /\ \A u \in DOMAIN heap[Out(p)] : heap[Out(p)][u] = GetNow(u).client
          /\ Out(p) /= RegMap

\* A caller changing the map it holds leaves the registry, and the maps
\* the other callers hold, as they are.
C9_CallerChangeIsLocal ==
    \A p \in Workers :
       CallerChanges(p) =>
          /\ clients' = clients
          /\ \A q \in Workers \ {p} : HoldsList(q) => heap'[ret[q].out] = heap[ret[q].out]

\* No step but its holder's own change alters a map ListClients returned.
C9_ReturnedMapIsStable ==
    \A p \in Workers :
       (HoldsList(p) /\ HoldsList(p)' /\ ~ CallerChanges(p)) =>
          heap'[ret[p].out] = heap[ret[p].out]

\* C9: ListClients returns exactly the registered uids with their current
\* clients, in a map of its own: changing that map does not change the
\* registry, and no later call changes a map already returned.
C9_ListIsFreshSnapshot ==
    /\ [] C9_ReturnsSnapshot
    /\ [][C9_CallerChangeIsLocal /\ C9_ReturnedMapIsStable]_vars

C9_Witness ==
    \E p \in Workers :
       /\ HoldsList(p)
       /\ DOMAIN heap[ret[p].out] = {"a"}
       /\ DOMAIN clients = {"a", "b"}
       /\ heap[ret[p].out]["a"] = clients["a"].Interface

----------------------------------------------------------------------------
\* C10: an AddClient that fails computing its options (a nil key) panics
\* before it compares, builds or stores anything: the registry is as the
\* call found it, the panic reaches the caller, and no call with a nil key
\* gets past newStableOptions.
C10_FailureLeavesRegistry ==
    \A p \in Workers :
       /\ pc[p] = "e_panic" =>
             /\ args[p].privateKey.nil
             /\ writer = p
             /\ clients = pre.clients
             /\ newClientCalls = pre.calls
             /\ last = pre.last
       /\ pc[p] \in {"e_compare", "e_NewClient", "e_store", "e_Unlock"} =>
             ~ args[p].privateKey.nil
       /\ ret[p].panicked => (ret[p].op = "AddClient" /\ pc[p] = "idle")

C10_Witness ==
    \E p \in Workers :
       /\ pc[p] = "e_panic"
       /\ args[p].uid \in DOMAIN clients
       /\ \E q \in Workers : ret[q].panicked

----------------------------------------------------------------------------
\* Positions of worker p between a Lock and its Unlock, by operation.
EnsureSection == {"e_newStableOptions", "e_compare", "e_NewClient", "e_store",
                  "e_Unlock", "e_panic"}

RemoveSection == {"r_delete", "r_Unlock"}

\* Positions between an RLock and its RUnlock.
ReadSection == {"g_lookup", "g_RUnlock", "l_make", "l_range"}

InWrite(p) == pc[p] \in EnsureSection \cup RemoveSection

InRead(p) == pc[p] \in ReadSection

\* Worker p has called NewClient and not yet stored what it returned.
Constructing(p) == pc[p] = "e_store"

\* C11: at most one worker is between Lock and Unlock; while one is, no
\* GetClient or ListClients is between its RLock and RUnlock; and a worker
\* that is at the NewClient call, or holds its result unstored, holds the
\* exclusive lock, so at most one construction is in flight.
C11_WritersExclude ==
    /\ Cardinality({p \in Workers : InWrite(p)}) <= 1
    /\ \A p \in Workers : InWrite(p) =>
          /\ writer = p
          /\ readers = {}
          /\ \A q \in Workers : ~ InRead(q)
    /\ \A p \in Workers : InRead(p) <=> p \in readers
    /\ \A p \in Workers :
          pc[p] \in {"e_NewClient", "e_store"} =>
             /\ writer = p
             /\ \A q \in Workers \ {p} : pc[q] \notin {"e_NewClient", "e_store"}

\* A worker has built a client it has not stored yet while another worker
\* waits for the lock.
C11_Witness ==
    \E p, q \in Workers :
       /\ Constructing(p)
       /\ pc[q] \in {"e_Lock", "r_Lock", "g_RLock", "l_RLock"}

----------------------------------------------------------------------------
\* The config and key the entry stored for u was built from: those of the
\* AddClient that last took effect for u.
StoredInputs(u) == Fingerprint(u, last[u].config, last[u].privateKey)

RequestedInputs(p) == Fingerprint(args[p].uid, args[p].config, args[p].privateKey)

\* C12: when ensureClient compares, the options it computed equal the
\* options stored with an entry exactly when issuer uid, server URL,
\* skip-verify flag, encoded modulus and exponent of the two AddClient calls
\* are all equal, whatever else differs in config or key; the fast path is
\* taken exactly when that holds for the entry of the uid asked for.
C12_EqualIffFiveFields ==
    \A p \in Workers :
       pc[p] = "e_compare" =>
          /\ \A u \in DOMAIN clients :
                equalTo(clients[u].stableOptions, newOpts[p])
                   <=> ChangedFields(StoredInputs(u), RequestedInputs(p)) = {}
          /\ FastPath(p) <=>
                /\ args[p].uid \in DOMAIN clients
                /\ ChangedFields(StoredInputs(args[p].uid), RequestedInputs(p)) = {}

\* An AddClient whose five fields are those of the stored entry while its
\* config or key is another is about to take the fast path.
C12_Witness ==
    \E p \in Workers :
       /\ pc[p] = "e_compare"
       /\ FastPath(p)
       /\ last[args[p].uid] /= Ensured(p)
       /\ \E u \in DOMAIN clients : ~ equalTo(clients[u].stableOptions, newOpts[p])

----------------------------------------------------------------------------
\* The entry a completed store of worker p's AddClient leaves: the client
\* the latest NewClient call built from p's config and key, with the
\* options of that config and key.
NewEntry(p) ==
    [ Interface     |-> NewClient(args[p].config, args[p].privateKey, newClientCalls),
      stableOptions |-> RequestedInputs(p) ]

\* Worker p's AddClient found an entry for its uid.
Replacing(p) == pc[p] \in EnsureSection /\ args[p].uid \in DOMAIN pre.clients

\* C13: while an AddClient that found an entry for its uid is between Lock
\* and Unlock, the registry holds an entry for that uid in every state, and
\* it is the whole entry found or the whole new entry, never a client of one
\* with the options of the other; no GetClient looks up meanwhile, and a
\* GetClient that has looked up a uid whose last effective operation is an
\* AddClient returns that uid's current client and no error.
C13_ReplaceIsAtomic ==
    /\ \A p \in Workers :
          Replacing(p) =>
             /\ args[p].uid \in DOMAIN clients
             /\ clients[args[p].uid] \in {pre.clients[args[p].uid], NewEntry(p)}
             /\ \A q \in Workers : pc[q] \notin {"g_lookup", "g_RUnlock"}
    /\ \A q \in Workers :
          (pc[q] = "g_RUnlock" /\ last[args[q].uid].kind = "ensured") =>
             /\ ret[q].err = "nil"
             /\ ret[q].client = clients[args[q].uid].Interface
             /\ BuiltFromSameFingerprint(ret[q].client, last[args[q].uid].config,
                                         last[args[q].uid].privateKey)
             /\ clients[args[q].uid].stableOptions = StoredInputs(args[q].uid)

\* An AddClient has replaced the entry it found with one of other options
\* and holds the lock still, while a GetClient for the same uid waits.
C13_Witness ==
    \E p, q \in Workers :
       /\ Replacing(p)
       /\ pc[p] = "e_Unlock"
       /\ clients[args[p].uid] = NewEntry(p)
       /\ clients[args[p].uid].stableOptions /= pre.clients[args[p].uid].stableOptions
       /\ pc[q] = "g_RLock"
       /\ args[q].uid = args[p].uid

----------------------------------------------------------------------------
\* The entry worker p's AddClient found for its uid has the options p asks for.
FoundSameOptions(p) ==
    /\ args[p].uid \in DOMAIN pre.clients
    /\ pre.clients[args[p].uid].stableOptions = RequestedInputs(p)

\* C14: the number of NewClient calls is the number of stores into the
\* registry plus the clients built and about to be stored, so once no
\* AddClient is between the two every client built has been stored; a store
\* installs the client the latest NewClient call returned; and NewClient is
\* called only by the holder of the write lock, for a uid that had no entry
\* or an entry of other options when the caller took the lock.
C14_BuiltIffInstalled ==
    /\ newClientCalls = stores + Cardinality({p \in Workers : Constructing(p)})
    /\ AllReturned => newClientCalls = stores
    /\ \A p \in Workers :
          /\ Constructing(p) =>
                /\ writer = p
                /\ built[p] = NewClient(args[p].config, args[p].privateKey, newClientCalls)
                /\ newClientCalls = pre.calls + 1
                /\ clients = pre.clients
                /\ ~ FoundSameOptions(p)
          /\ pc[p] = "e_NewClient" =>
                /\ writer = p
                /\ newClientCalls = pre.calls
                /\ ~ FoundSameOptions(p)
          /\ EnsureDone(p) =>
                IF FoundSameOptions(p)
                  THEN newClientCalls = pre.calls /\ clients = pre.clients
                  ELSE /\ newClientCalls = pre.calls + 1
                       /\ clients[args[p].uid].Interface = built[p]
                       /\ built[p].ptr = newClientCalls

\* Three clients have been built and stored, the last one in place of an
\* entry of other options, and its builder holds the lock still.
C14_Witness ==
    \E p \in Workers :
       /\ EnsureDone(p)
       /\ args[p].uid \in DOMAIN pre.clients
       /\ ~ FoundSameOptions(p)
       /\ newClientCalls = 3
       /\ stores = 3

----------------------------------------------------------------------------
\* Worker p's ListClients is between RLock and RUnlock.
Listing(p) == pc[p] \in {"l_make", "l_range"}

\* The registry's clients restricted to the uids in ks.
SnapshotOf(ks) == [k \in ks |-> clients[k].Interface]

\* C15: while a ListClients copies, with writers waiting or not, the
\* registry does not change under it: the uids left to copy are uids of the
\* registry as it is now, what is copied so far is the registry's present
\* content for the other uids, and no worker is between Lock and Unlock; so
\* the map it returns is the registry's content of one instant of the call.
C15_CopiesOneInstant ==
    \A p \in Workers :
       /\ Listing(p) =>
             /\ p \in readers
             /\ writer = 0
             /\ \A q \in Workers : ~ InWrite(q)
       /\ pc[p] = "l_range" =>
             /\ todo[p] \subseteq DOMAIN clients
             /\ heap[Out(p)] = SnapshotOf(DOMAIN clients \ todo[p])

\* A ListClients has copied an entry and not yet released the lock while a
\* writer for the uid it has copied waits for the lock.
C15_Witness ==
    \E p, q \in Workers :
       /\ pc[p] = "l_range"
       /\ DOMAIN heap[Out(p)] /= {}
       /\ pc[q] \in {"e_Lock", "r_Lock"}
       /\ args[q].uid \in DOMAIN heap[Out(p)]

----------------------------------------------------------------------------
\* The step changes or removes the registry's entry for u.
EntryChanges(u) ==
    /\ u \in DOMAIN clients
    /\ (u \notin DOMAIN clients' \/ clients'[u] /= clients[u])

\* The step is a step of a GetClient or a ListClients.
ReaderStep ==
    \E p \in Workers :
       /\ pc'[p] /= pc[p]
       /\ \/ pc[p] \in {"g_RLock"} \cup ReadSection
          \/ pc'[p] \in {"g_RLock", "l_RLock"}

\* A uid whose last effective operation is an AddClient has an entry.
EnsuredIsPresent ==
    \A u \in UIDs : last[u].kind = "ensured" => GetNow(u).err = "nil"

\* Only a RemoveClient(u) removes u's entry, only a RemoveClient(u) or an
\* AddClient(u) at its store changes it, and the steps of GetClient and
\* ListClients leave the registry as it is.
OnlyOwnWriterChanges ==
    /\ \A u \in UIDs :
          EntryChanges(u) =>
             \E p \in Workers :
                /\ args[p].uid = u
                /\ writer = p
                /\ IF u \in DOMAIN clients'
                     THEN pc[p] = "e_store" /\ pc'[p] = "e_Unlock"
                     ELSE pc[p] = "r_delete" /\ pc'[p] = "r_Unlock"
    /\ ReaderStep => clients' = clients

\* C16: from an AddClient(uid) taking effect until a RemoveClient(uid)
\* takes effect GetClient(uid) finds an entry; no step of an operation on
\* another uid, of a GetClient or of a ListClients removes or changes the
\* entry of uid; GetClient and ListClients leave the whole registry as it is.
C16_EntriesPersist == [] EnsuredIsPresent /\ [][OnlyOwnWriterChanges]_vars

\* The entry of one uid is in place, unchanged since it was stored, after a
\* RemoveClient of the other uid took effect and while a GetClient returns.
C16_Witness ==
    \E p \in Workers, u, v \in UIDs :
       /\ u /= v
       /\ last[u].kind = "ensured"
       /\ last[v].kind = "removed"
       /\ pc[p] = "g_RUnlock"
       /\ ret[p].client = clients[u].Interface

----------------------------------------------------------------------------
\* Config c differs from config c2 in the skip-verify flag and nothing else.
OnlySkipDiffers(c, c2) ==
    /\ c.SkipTLSVerify /= c2.SkipTLSVerify
    /\ [c EXCEPT !.SkipTLSVerify = c2.SkipTLSVerify] = c2

\* C17: an AddClient calls NewClient, once, exactly when the options it
\* asks for differ from the options stored for its uid at the moment it
\* holds the lock, or none are stored; options stored earlier and since
\* replaced play no part, so an AddClient whose config toggles the
\* skip-verify flag of the entry it finds always builds; and it leaves its
\* own options stored.
C17_ComparesStoredOnly ==
    \A p \in Workers :
       EnsureDone(p) =>
          /\ newClientCalls \in {pre.calls, pre.calls + 1}
          /\ newClientCalls = pre.calls + 1 <=> ~ FoundSameOptions(p)
          /\ ( /\ pre.last[args[p].uid].kind = "ensured"
               /\ OnlySkipDiffers(pre.last[args[p].uid].config, args[p].config) )
                => newClientCalls = pre.calls + 1
          /\ clients[args[p].uid].stableOptions = RequestedInputs(p)

\* AddClient(a, A), AddClient(a, B), AddClient(a, A), with B the config A
\* with the skip-verify flag toggled and the same key, have built three
\* clients.
C17_Witness ==
    \E p \in Workers :
       /\ EnsureDone(p)
       /\ OnlySkipDiffers(BaseInput.config, edited.config)
       /\ edited.privateKey = BaseInput.privateKey
       /\ args[p].config = BaseInput.config
       /\ pre.last[args[p].uid].kind = "ensured"
       /\ pre.last[args[p].uid].config = edited.config
       /\ DOMAIN clients = {args[p].uid}
       /\ ncalls = 3
       /\ newClientCalls = 3

----------------------------------------------------------------------------
\* The lock acquisitions of worker p.
Acquire(p) == EnsureLock(p) \/ GetRLock(p) \/ RemoveLock(p) \/ ListRLock(p)

\* The steps of worker p between acquiring the lock and returning: the
\* method's body, NewClient included, and the deferred release.
Proceed(p) ==
    \/ EnsureNewStableOptions(p) \/ EnsureCompare(p) \/ EnsureNewClient(p)
    \/ EnsureStore(p) \/ EnsureUnlock(p)
    \/ GetLookup(p) \/ GetRUnlock(p)
    \/ RemoveDelete(p) \/ RemoveUnlock(p)
    \/ ListMake(p) \/ ListRange(p) \/ ListRUnlock(p)

\* The input the callers pass besides BaseInput is the one with the nil key,
\* so that AddClient returns on each of its paths: the fast path, the store
\* and the panic.
InitFair == Init /\ edited.privateKey.nil

\* The invocations of the registry's four methods.
Call(p) == AddClient(p) \/ GetClient(p) \/ RemoveClient(p) \/ ListClients(p)

\* The registry's methods alone: what a caller does to a map ListClients
\* returned to it takes no lock and is left out.
NextFair == \E p \in Workers : Call(p) \/ Acquire(p) \/ Proceed(p)

\* The registry's callers with a scheduler that keeps running a goroutine
\* that can run, NewClient returning, and a lock that is granted to a
\* goroutine that can take it again and again.
SpecFair ==
    /\ InitFair
    /\ [][NextFair]_vars
    /\ \A p \in Workers : WF_vars(Proceed(p)) /\ SF_vars(Acquire(p))

\* Worker p is in no call and holds the lock in neither mode.
Released(p) == pc[p] = "idle" /\ writer /= p /\ p \notin readers

\* C18: every call of AddClient, GetClient, RemoveClient and ListClients
\* that has been invoked returns, the AddClient that panics included, and
\* has released the lock when it has; with no call in progress the lock is
\* free.
C18_EveryCallReturns ==
    /\ \A p \in Workers : pc[p] /= "idle" ~> Released(p)
    /\ [](\A p \in Workers : pc[p] = "idle" => Released(p))
    /\ [](AllReturned => (writer = 0 /\ readers = {}))

\* Every worker is in a call, one holds the write lock after its
\* newStableOptions panicked, the others wait for the lock.
C18_Witness ==
    \E p \in Workers :
       /\ pc[p] = "e_panic"
       /\ \A q \in Workers \ {p} : pc[q] \in {"e_Lock", "g_RLock", "r_Lock", "l_RLock"}

----------------------------------------------------------------------------
\* Worker p is computing its options: newStableOptions runs.
Computing(p) == pc[p] = "e_newStableOptions"

\* C19 as claimed: AddClient computes its options first and takes the
\* write lock afterwards: while it computes it does not hold the lock, and
\* when it is about to take the lock it has its options.
C19_ComputesThenLocks ==
    \A p \in Workers :
       /\ Computing(p) => writer /= p
       /\ pc[p] = "e_Lock" => newOpts[p] /= NoOpts

\* C19 as amended: AddClient takes the write lock first and computes its
\* options afterwards: when it is about to take the lock it has none, it
\* computes them holding the lock, and it has them only while it holds it.
C19_LocksThenComputes ==
    \A p \in Workers :
       /\ pc[p] = "e_Lock" => (newOpts[p] = NoOpts /\ writer /= p)
       /\ Computing(p) => (newOpts[p] = NoOpts /\ writer = p /\ pre.held)
       /\ newOpts[p] /= NoOpts =>
             /\ writer = p
             /\ pc[p] \in {"e_compare", "e_NewClient", "e_store", "e_Unlock"}
             /\ newOpts[p] = RequestedInputs(p)

\* One AddClient computes its options, holding the lock, while another
\* waits for the lock and a third call has stored an entry before.
C19_Witness ==
    \E p, q \in Workers :
       /\ Computing(p)
       /\ writer = p
       /\ pc[q] = "e_Lock"
       /\ clients /= EmptyMap

----------------------------------------------------------------------------
\* Worker p's AddClient found its uid removed, and its config and key are
\* those of the AddClient that last took effect for the uid before that.
ReAddsRemoved(p) ==
    /\ pre.last[args[p].uid].kind = "removed"
    /\ pre.last[args[p].uid].config = args[p].config
    /\ pre.last[args[p].uid].privateKey = args[p].privateKey

\* C20: RemoveClient deletes the options with the client: an AddClient for
\* a uid whose last effective operation is a RemoveClient, with the config
\* and key the removed entry was built from or any other, finds no entry,
\* calls NewClient once and stores a new client, not taking the fast path.
C20_RemoveForgetsOptions ==
    /\ \A u \in UIDs : last[u].kind = "removed" => u \notin DOMAIN clients
    /\ \A p \in Workers :
          /\ (pc[p] = "e_compare" /\ last[args[p].uid].kind = "removed") => ~ FastPath(p)
          /\ (EnsureDone(p) /\ pre.last[args[p].uid].kind = "removed") =>
                /\ args[p].uid \notin DOMAIN pre.clients
                /\ newClientCalls = pre.calls + 1
                /\ clients[args[p].uid] = NewEntry(p)
                /\ clients[args[p].uid].Interface.ptr = newClientCalls

\* AddClient, RemoveClient, AddClient for one uid with the same config and
\* key have built two clients.
C20_Witness ==
    \E p \in Workers :
       /\ EnsureDone(p)
       /\ ReAddsRemoved(p)
       /\ ncalls = 3
       /\ newClientCalls = 2
       /\ clients[args[p].uid].Interface.ptr = 2

=============================================================================
